---- MODULE Spec2Model ----
(***************************************************************************)
(* Model of the cadocurrency server (src/server.py): a single linear       *)
(* proof-of-work chain kept in CHAIN_FILE, an in-memory mempool, and       *)
(* per-miner difficulty retargeting, served by Flask handlers that run     *)
(* their ledger section under chain_lock.                                  *)
(*                                                                         *)
(* Modelling conventions                                                   *)
(*  - Amounts are Python floats in the source.  The model counts them in   *)
(*    units of 0.25 coin, so MIN_REWARD is 1 unit and INITIAL_REWARD is 16 *)
(*    units; every reward the schedule can produce is a whole number of    *)
(*    units.  The float NaN is the sentinel NaN, and every comparison that *)
(*    touches it is false, as in IEEE 754.                                  *)
(*  - A SHA-1 digest is modelled by the thing it is the digest of: the     *)
(*    genesis hash "0" is the empty sequence and sha1_hex(seed + str(n))   *)
(*    is Append(seed, n), i.e. the digest is collision free.  The value of *)
(*    its first six hex digits is a fixed function of the digest chosen so *)
(*    that values below, at and above the thresholds in use occur.         *)
(*  - time.time() is the integer variable clock.  It stands still in the   *)
(*    ledger and concurrency specifications and is advanced by Tick in the *)
(*    difficulty specification.                                            *)
(***************************************************************************)
EXTENDS Integers, Sequences, FiniteSets, TLC

\* ------------------------------------------------------------------ bounds
\* mined blocks (beyond genesis) explored by the ledger specifications
MaxChain == 2
\* request threads of the concurrency specification
NThreads == 2
\* shares the request threads answer there
MaxServed == 3
\* pending transfers explored
MaxPool == 2
\* accepted shares explored by the difficulty specification
MaxRun == 26
\* how far the clock may run ahead of the newest block there
MaxLag == 6
\* halvings probed one by one by the specification of the pure functions
MaxHalvings == 8
\* difficulties probed outside MIN_DIFFICULTY .. MAX_DIFFICULTY there
MaxOut == 3

\* ------------------------------------------------------- program constants
HALVING_INTERVAL == 1000
INITIAL_REWARD == 16
MIN_REWARD == 1
MIN_DIFFICULTY == 75
DEFAULT_DIFFICULTY == 100
MAX_DIFFICULTY == 120
TARGET_SHARE_TIME == 5
\* the exponent of two from which an int no longer converts to a float
FloatMaxExp == 1024

\* ------------------------------------------------------------ input spaces
\* names a client may try to register; "al" is too short
UsernameCandidates == {"alice", "network", "al"}
\* "to" fields a client may send
Receivers == {"bob"}
\* every account id that can occur in a transaction
Accounts == {"alice", "bob", "network"}
NaN == -999
\* "amount" fields a client may send, already numeric (in 0.25 units)
Amounts == {0, 16, NaN}
Nonces == 1 .. 3
\* the nonce a miner of the difficulty specification found: valid at any difficulty
EasyNonce == 0

\* CHAIN_FILE does not exist (a stored chain always has its genesis block)
\* the result of get_block_reward when it raises OverflowError
RewardOverflow == -996
NoFile == <<>>
\* CHAIN_FILE holds a truncated or partial document that json.load rejects
Corrupt == <<[corrupt |-> TRUE]>>
\* a key that is not in miner_difficulty / last_share_time
Absent == -1
\* get_user_from_token found no session for the request
None == "None"
\* request fields that are missing (JSON null or not sent)
SeedNone == <<-1>>
NonceNone == -1
AmountNone == -998
\* request fields that int() / float() reject with ValueError
NonceBad == -2
AmountBad == -997

VARIABLES
    chain_file,        \* contents of CHAIN_FILE: NoFile or a sequence of blocks
    users,             \* usernames stored in USERS_FILE
    sessions,          \* usernames that hold a session token
    miner_difficulty,  \* miner_id -> difficulty, Absent when not set
    last_share_time,   \* miner_id -> timestamp, Absent when not set
    mempool,           \* sequence of pending transactions
    clock,             \* what time.time() returns
    resp,              \* the last response that came with a change of state
    lock,              \* chain_lock: 0 when free, else the thread holding it
    thr,               \* per request thread: where it is in submit_share
    served             \* history: the shares the request threads answered

vars == <<chain_file, users, sessions, miner_difficulty, last_share_time,
          mempool, clock, resp, lock, thr, served>>
\* what the handlers that run as one step leave alone
thread_vars == <<lock, thr, served>>

\* ------------------------------------------------------------ pure helpers
Max(a, b) == IF a >= b THEN a ELSE b

RECURSIVE Pow2(_)
Pow2(n) == IF n <= 0 THEN 1 ELSE 2 * Pow2(n - 1)

\* float comparisons: false as soon as one side is NaN
FGe(a, b) == a # NaN /\ b # NaN /\ a >= b
FLt(a, b) == a # NaN /\ b # NaN /\ a < b
FLe(a, b) == a # NaN /\ b # NaN /\ a <= b
FGt(a, b) == a # NaN /\ b # NaN /\ a > b

\* (variant) the digest leaves the seed out
sha1_hex_NoSeed(seed, nonce) == <<nonce>>


sha1_hex(seed, nonce) == Append(seed, nonce)

genesis ==
    <<[index |-> 0, timestamp |-> 0, transactions |-> <<>>,
       prev_hash |-> <<>>, nonce |-> 0, hash |-> <<>>, miner |-> "genesis"]>>

\* load_chain's return value for a given content of CHAIN_FILE; when the file
\* is missing it also writes the genesis chain, so a handler that called it
\* leaves the file holding what it returned
load_chain(file) == IF file = NoFile THEN genesis ELSE file

get_height(chain) == Len(chain) - 1

\* r / 2**n in units; a quotient below one unit is below MIN_REWARD and
\* counts as 0
RECURSIVE Halved(_, _)
Halved(r, n) == IF n = 0 \/ r = 0 THEN r ELSE Halved(r \div 2, n - 1)

\* lines 120-122.  INITIAL_REWARD is a float, so line 121 converts the int
\* 2 ** halvings to a float, which raises OverflowError from 2 ** 1024 on
get_block_reward(height) ==
    LET halvings == height \div HALVING_INTERVAL
    IN  IF halvings >= FloatMaxExp THEN RewardOverflow
        ELSE Max(Halved(INITIAL_REWARD, halvings), MIN_REWARD)

\* (variant) the difficulty is not clamped from above
difficulty_to_threshold_NoCeiling(diff) ==
    LET min_d == MIN_DIFFICULTY
        max_d == MAX_DIFFICULTY
        max_raw == 16^6 - 1
        easy_threshold == (max_raw * 9) \div 10
        hard_threshold == (max_raw * 2) \div 10
        d == IF diff < min_d THEN min_d ELSE diff
    IN  (easy_threshold * (max_d - min_d)
           - (easy_threshold - hard_threshold) * (d - min_d))
        \div (max_d - min_d)

\* lines 144-155; int() truncates, and the float interpolation of line 153
\* truncates to the same integer as the exact quotient for every difficulty
difficulty_to_threshold(diff) ==
    LET min_d == MIN_DIFFICULTY
        max_d == MAX_DIFFICULTY
        max_raw == 16^6 - 1
        easy_threshold == (max_raw * 9) \div 10
        hard_threshold == (max_raw * 2) \div 10
        d1 == IF diff < min_d THEN min_d ELSE diff
        d == IF d1 > max_d THEN max_d ELSE d1
    IN  (easy_threshold * (max_d - min_d)
           - (easy_threshold - hard_threshold) * (d - min_d))
        \div (max_d - min_d)

\* int(h[:6], 16): a digest made with nonce 0 starts with 000000, with nonce 1
\* it lies just under the default threshold, with nonce 2 exactly on it, and
\* with nonce 3 it starts with ffffff
hash_val(h) ==
    LET n == h[Len(h)]
    IN  CASE n = 0 -> 0
          [] n = 1 -> difficulty_to_threshold(DEFAULT_DIFFICULTY) - 1
          [] n = 2 -> difficulty_to_threshold(DEFAULT_DIFFICULTY)
          [] OTHER -> 16^6 - 1

\* lines 109-114: what one transaction adds to the entry of account a; the
\* sender "network" is never debited
TxNet(tx, a) ==
    (IF tx.to = a THEN tx.amount ELSE 0)
        - (IF tx.from = a /\ tx.from # "network" THEN tx.amount ELSE 0)

\* line 108: the transactions of one block
RECURSIVE TxsNet(_, _)
TxsNet(txs, a) ==
    IF txs = <<>> THEN 0 ELSE TxNet(Head(txs), a) + TxsNet(Tail(txs), a)

\* line 107: the blocks of the chain
RECURSIVE ChainNet(_, _)
ChainNet(chain, a) ==
    IF chain = <<>> THEN 0
    ELSE TxsNet(Head(chain).transactions, a) + ChainNet(Tail(chain), a)

\* balances.get(a, 0.0) of the mapping compute_balances returns: the loops
\* only add to and subtract from entries that start at 0.0, so the entry of
\* a is the sum of what the transactions add to it
compute_balances(chain) == [a \in Accounts |-> ChainNet(chain, a)]

\* (variant) the retained transaction is put in front of the others
Retain_Front(new_mempool, tx) == <<tx>> \o new_mempool

\* line 595: a transaction the sender cannot pay yet stays for later
Retain(new_mempool, tx) == Append(new_mempool, tx)

\* (variant) the newest included transfer is put right after the coinbase
Include_Front(valid_txs, tx) == <<Head(valid_txs), tx>> \o Tail(valid_txs)

\* line 591: valid_txs.append(tx)
Include(valid_txs, tx) == Append(valid_txs, tx)

\* (variant) every transfer of a positive amount is taken into the block
CanPay_Any(balances, sender, amount) == FGt(amount, 0)

\* line 589: balances.get(sender, 0.0) >= amount
CanPay(balances, sender, amount) == FGe(balances[sender], amount)

\* (variant) an included transfer is credited but not debited
RECURSIVE AssembleLoop_NoDebit(_, _, _, _)
AssembleLoop_NoDebit(balances, valid_txs, new_mempool, pool) ==
    IF pool = <<>> THEN [valid_txs |-> valid_txs, new_mempool |-> new_mempool]
    ELSE LET tx == Head(pool)
         IN  IF FGe(balances[tx.from], tx.amount)
             THEN AssembleLoop_NoDebit(
                     [balances EXCEPT ![tx.to] = @ + tx.amount],
                     Append(valid_txs, tx), new_mempool, Tail(pool))
             ELSE AssembleLoop_NoDebit(balances, valid_txs,
                                       Retain(new_mempool, tx), Tail(pool))

\* lines 586-596: the mempool loop of submit_share
RECURSIVE AssembleLoop(_, _, _, _)
AssembleLoop(balances, valid_txs, new_mempool, pool) ==
    IF pool = <<>> THEN [valid_txs |-> valid_txs, new_mempool |-> new_mempool]
    ELSE LET tx == Head(pool)
             sender == tx.from
             amount == tx.amount
         IN  IF CanPay(balances, sender, amount)
             THEN AssembleLoop(
                     [[balances EXCEPT ![sender] = @ - amount]
                         EXCEPT ![tx.to] = @ + amount],
                     Include(valid_txs, tx), new_mempool, Tail(pool))
             ELSE AssembleLoop(balances, valid_txs,
                               Retain(new_mempool, tx), Tail(pool))

\* ------------------------------------------------------------------- state
\* the part of the state the ledger handlers read and write, as one value
Cur ==
    [chain_file |-> chain_file, mempool |-> mempool,
     miner_difficulty |-> miner_difficulty,
     last_share_time |-> last_share_time, clock |-> clock]

Fresh ==
    [chain_file |-> NoFile, mempool |-> <<>>,
     miner_difficulty |-> [a \in Accounts |-> Absent],
     last_share_time |-> [a \in Accounts |-> Absent], clock |-> 0]

\* miner_difficulty.get(miner_id, DEFAULT_DIFFICULTY)
Difficulty(st, m) ==
    IF st.miner_difficulty[m] = Absent THEN DEFAULT_DIFFICULTY
    ELSE st.miner_difficulty[m]

\* (variant) a miner without a previous share has waited no time at all
Elapsed_FirstZero(st, m, now) ==
    IF st.last_share_time[m] = Absent THEN 0
    ELSE IF st.last_share_time[m] # now THEN now - st.last_share_time[m]
    ELSE TARGET_SHARE_TIME

\* lines 615-617: the measured share interval
Elapsed(st, m, now) ==
    LET prev_time == IF st.last_share_time[m] = Absent THEN now
                     ELSE st.last_share_time[m]
    IN  IF prev_time # now THEN now - prev_time ELSE TARGET_SHARE_TIME

\* (variant) the step without the lower clamp
Retarget_NoFloor(current_diff, elapsed) ==
    LET d0 == IF elapsed < TARGET_SHARE_TIME THEN current_diff + 1
              ELSE current_diff - 1
    IN  IF d0 > MAX_DIFFICULTY THEN MAX_DIFFICULTY ELSE d0

\* lines 622-630: the step and the clamp
Retarget(current_diff, elapsed) ==
    LET d0 == IF elapsed < TARGET_SHARE_TIME THEN current_diff + 1
              ELSE current_diff - 1
        d1 == IF d0 < MIN_DIFFICULTY THEN MIN_DIFFICULTY ELSE d0
    IN  IF d1 > MAX_DIFFICULTY THEN MAX_DIFFICULTY ELSE d1

\* (variant) the block is numbered with the old tip's height
NewBlock_OldHeight(chain, m, nonce, h, valid_txs, ts) ==
    [index |-> get_height(chain), timestamp |-> ts,
     transactions |-> valid_txs, prev_hash |-> chain[Len(chain)].hash,
     nonce |-> nonce, hash |-> h, miner |-> m]

\* lines 598-606
NewBlock(chain, m, nonce, h, valid_txs, ts) ==
    [index |-> get_height(chain) + 1, timestamp |-> ts,
     transactions |-> valid_txs, prev_hash |-> chain[Len(chain)].hash,
     nonce |-> nonce, hash |-> h, miner |-> m]

\* (variant) the seed is never compared with the tip
IsStale_Never(seed, last_block) == FALSE

\* line 562: the job the miner worked on is outdated
IsStale(seed, last_block) == seed # last_block.hash

\* (variant) a hash value equal to the threshold passes
PowFails_Above(hv, threshold) == hv > threshold

\* line 574: the share does not meet the miner's threshold
PowFails(hv, threshold) == hv >= threshold

\* (variant) the new block replaces the tip instead of following it
chain_append_Overwrite(chain, new_block) ==
    [chain EXCEPT ![Len(chain)] = new_block]

\* line 608
chain_append(chain, new_block) == Append(chain, new_block)

\* (variant) the balance is read before the block is appended
MinerBalance_BeforeBlock(chain, new_chain, miner_id) ==
    compute_balances(chain)[miner_id]

\* lines 611-612: the balance an accepted share reports, recomputed from the
\* chain that holds the new block (chain is the list before line 608)
MinerBalance(chain, new_chain, miner_id) ==
    compute_balances(new_chain)[miner_id]

\* a handler's outcome: the response and the ledger state it leaves
Out(st, r) == [resp |-> r, st |-> st]

\* --------------------------------------------------------------- handlers
\* Each handler is a function from the state it finds and its request to its
\* outcome; the actions below install the outcome.

Unauthorized == [op |-> "unauthorized", status |-> 401]
\* an exception escaped the handler: Flask answers 500
ServerError == [op |-> "error", status |-> 500]

\* (variant) the job is numbered and rewarded as the tip, not as its successor
get_job_TipHeight(st, miner_id) ==
    IF miner_id = None THEN Out(st, Unauthorized)
    ELSE IF st.chain_file = Corrupt THEN Out(st, ServerError)
    ELSE
    LET chain == load_chain(st.chain_file)
        last_block == chain[Len(chain)]
        height == get_height(chain)
        current_diff == Difficulty(st, miner_id)
    IN  Out([st EXCEPT !.chain_file = chain],
            [op |-> "get_job", miner |-> miner_id, seed |-> last_block.hash,
             difficulty |-> current_diff,
             threshold |-> difficulty_to_threshold(current_diff),
             height |-> height, reward |-> get_block_reward(height)])

\* lines 514-536
get_job(st, miner_id) ==
    IF miner_id = None THEN Out(st, Unauthorized)
    ELSE IF st.chain_file = Corrupt THEN Out(st, ServerError)
    ELSE
    LET chain == load_chain(st.chain_file)
        last_block == chain[Len(chain)]
        height == get_height(chain)
        reward == get_block_reward(height + 1)
        current_diff == Difficulty(st, miner_id)
        threshold == difficulty_to_threshold(current_diff)
        seed == last_block.hash
    IN  IF reward = RewardOverflow
        THEN Out([st EXCEPT !.chain_file = chain], ServerError)
        ELSE
        Out([st EXCEPT !.chain_file = chain],
            [op |-> "get_job", miner |-> miner_id, seed |-> seed,
             difficulty |-> current_diff, threshold |-> threshold,
             height |-> height + 1, reward |-> reward])

ShareReq(miner_id, seed, nonce) ==
    [miner |-> miner_id, seed |-> seed, nonce |-> nonce]

Rejected(req, error) ==
    [op |-> "submit_share", req |-> req, accepted |-> FALSE, error |-> error]

\* lines 560-632: the section of submit_share that runs under chain_lock,
\* given the chain that load_chain returned (st is the state after the load).  saved tells whether save_chain
\* returned; torn whether a save_chain that raised had already truncated the
\* file it opened for writing.
submit_locked(st, chain, miner_id, seed, nonce, saved, torn) ==
    LET last_block == chain[Len(chain)]
        req == ShareReq(miner_id, seed, nonce)
        height == get_height(chain) + 1
        current_diff == Difficulty(st, miner_id)
        threshold == difficulty_to_threshold(current_diff)
        h == sha1_hex(seed, nonce)
        reward == get_block_reward(height)
        coinbase_tx == [from |-> "network", to |-> miner_id, amount |-> reward]
        asm == AssembleLoop(compute_balances(chain), <<coinbase_tx>>, <<>>,
                            st.mempool)
        new_block == NewBlock(chain, miner_id, nonce, h, asm.valid_txs,
                              st.clock)
        new_chain == chain_append(chain, new_block)
        miner_balance == MinerBalance(chain, new_chain, miner_id)
        now == st.clock
        elapsed == Elapsed(st, miner_id, now)
        new_diff == Retarget(current_diff, elapsed)
    IN  IF IsStale(seed, last_block)
        THEN Out(st, Rejected(req, "Stale job"))
        ELSE IF PowFails(hash_val(h), threshold)
        THEN Out(st, Rejected(req, "Invalid share"))
        ELSE IF reward = RewardOverflow
        THEN Out(st, ServerError)
        ELSE IF ~saved
        THEN Out([st EXCEPT !.mempool = asm.new_mempool,
                            !.chain_file = IF torn THEN Corrupt ELSE @],
                 ServerError)
        ELSE Out([st EXCEPT
                     !.mempool = asm.new_mempool,
                     !.chain_file = new_chain,
                     !.last_share_time[miner_id] = now,
                     !.miner_difficulty[miner_id] = new_diff],
                 [op |-> "submit_share", req |-> req, accepted |-> TRUE,
                  hash |-> h, height |-> height, reward |-> reward,
                  balance |-> miner_balance, difficulty |-> new_diff,
                  share_time |-> elapsed])

submit_share(st, miner_id, seed, nonce, saved, torn) ==
    IF miner_id = None THEN Out(st, Unauthorized)
    ELSE IF seed = SeedNone \/ nonce = NonceNone
    THEN Out(st, Rejected(ShareReq(miner_id, seed, nonce),
                          "Missing seed or nonce"))
    ELSE IF nonce = NonceBad
    THEN Out(st, Rejected(ShareReq(miner_id, seed, nonce), "Invalid nonce"))
    ELSE IF st.chain_file = Corrupt THEN Out(st, ServerError)
    ELSE LET chain == load_chain(st.chain_file)
         IN  submit_locked([st EXCEPT !.chain_file = chain], chain, miner_id,
                           seed, nonce, saved, torn)

my_balance(st, miner_id) ==
    IF miner_id = None THEN Out(st, Unauthorized)
    ELSE IF st.chain_file = Corrupt THEN Out(st, ServerError)
    ELSE
    LET chain == load_chain(st.chain_file)
        balances == compute_balances(chain)
    IN  Out([st EXCEPT !.chain_file = chain],
            [op |-> "my_balance", miner |-> miner_id,
             balance |-> balances[miner_id]])

SendReply(miner_id, receiver, amount, success, error) ==
    [op |-> "send", req |-> [from |-> miner_id, to |-> receiver,
                             amount |-> amount],
     success |-> success, error |-> error]

send(st, miner_id, receiver, amount) ==
    IF miner_id = None THEN Out(st, Unauthorized)
    ELSE IF receiver = "" \/ amount = AmountNone
    THEN Out(st, SendReply(miner_id, receiver, amount, FALSE,
                           "Missing fields"))
    ELSE IF amount = AmountBad
    THEN Out(st, SendReply(miner_id, receiver, amount, FALSE,
                           "Invalid amount"))
    ELSE IF FLe(amount, 0)
    THEN Out(st, SendReply(miner_id, receiver, amount, FALSE,
                           "Amount must be positive"))
    ELSE IF st.chain_file = Corrupt THEN Out(st, ServerError)
    ELSE
    LET chain == load_chain(st.chain_file)
        balances == compute_balances(chain)
        tx == [from |-> miner_id, to |-> receiver, amount |-> amount]
    IN  IF FLt(balances[miner_id], amount)
        THEN Out([st EXCEPT !.chain_file = chain],
                 SendReply(miner_id, receiver, amount, FALSE,
                           "Insufficient balance"))
        ELSE Out([st EXCEPT !.chain_file = chain,
                            !.mempool = Append(st.mempool, tx)],
                 SendReply(miner_id, receiver, amount, TRUE, ""))

get_chain(st) ==
    IF st.chain_file = Corrupt THEN Out(st, ServerError)
    ELSE Out([st EXCEPT !.chain_file = load_chain(st.chain_file)],
             [op |-> "get_chain", status |-> 200])

UsernameLen(u) == CASE u = "al" -> 2 [] u = "alice" -> 5 [] OTHER -> 7
\* str.lower(); every candidate name is lower case already
Lower(u) == u

\* lines 452-484, on the usernames of USERS_FILE
register(us, username) ==
    IF UsernameLen(username) < 3
    THEN [users |-> us, resp |-> [op |-> "register", success |-> FALSE,
                                  error |-> "Username too short"]]
    ELSE IF \E u \in us : Lower(u) = Lower(username)
    THEN [users |-> us, resp |-> [op |-> "register", success |-> FALSE,
                                  error |-> "Username already taken"]]
    ELSE [users |-> us \cup {username},
          resp |-> [op |-> "register", success |-> TRUE, error |-> ""]]

\* lines 496-509
login(us, ss, username) ==
    IF username \notin us
    THEN [sessions |-> ss, resp |-> [op |-> "login", success |-> FALSE]]
    ELSE [sessions |-> ss \cup {username},
          resp |-> [op |-> "login", success |-> TRUE]]

\* ----------------------------------------------------------------- actions
Init ==
    /\ chain_file = Fresh.chain_file
    /\ mempool = Fresh.mempool
    /\ miner_difficulty = Fresh.miner_difficulty
    /\ last_share_time = Fresh.last_share_time
    /\ clock = Fresh.clock
    /\ users = {}
    /\ sessions = {}
    /\ resp = [op |-> "none"]
    /\ lock = 0
    /\ thr = [t \in 1 .. NThreads |-> [pc |-> "idle"]]
    /\ served = <<>>

\* the response the model remembers: that of the last request that changed
\* the server's state (a request that changes nothing leaves no trace)
Remember(changed, r) == IF changed THEN r ELSE resp

\* a ledger handler returned o
Install(o) ==
    /\ chain_file' = o.st.chain_file
    /\ mempool' = o.st.mempool
    /\ miner_difficulty' = o.st.miner_difficulty
    /\ last_share_time' = o.st.last_share_time
    /\ clock' = o.st.clock
    /\ resp' = Remember(o.st # Cur, o.resp)
    /\ UNCHANGED <<users, sessions, thread_vars>>

\* the seed of the job a client holds; the genesis hash when no job can be
\* issued because the file is unreadable
TipHash ==
    IF chain_file = Corrupt THEN <<>>
    ELSE load_chain(chain_file)[Len(load_chain(chain_file))].hash
\* the session a request's token maps to
Callers == sessions
\* seeds a client may submit: the genesis hash, the hash of the tip, or the
\* hash of a block that was never mined
SeedChoices == {<<>>, TipHash, sha1_hex(TipHash, EasyNonce)}
\* requests that fail validation before the ledger section is entered
BadShares == {<<SeedNone, 1>>, <<TipHash, NonceNone>>, <<TipHash, NonceBad>>}
BadSends == {<<"", 16>>, <<"bob", AmountNone>>, <<"bob", AmountBad>>}

Register ==
    \E u \in UsernameCandidates :
        /\ users' = register(users, u).users
        /\ resp' = Remember(users' # users, register(users, u).resp)
        /\ UNCHANGED <<chain_file, sessions, miner_difficulty,
                       last_share_time, mempool, clock, thread_vars>>

Login ==
    \E u \in UsernameCandidates :
        /\ sessions' = login(users, sessions, u).sessions
        /\ resp' = Remember(sessions' # sessions,
                             login(users, sessions, u).resp)
        /\ UNCHANGED <<chain_file, users, miner_difficulty, last_share_time,
                       mempool, clock, thread_vars>>

GetJob == \E m \in Callers \cup {None} : Install(get_job(Cur, m))

SubmitShare ==
    \E m \in Callers, seed \in SeedChoices, nonce \in Nonces :
        /\ Install(submit_share(Cur, m, seed, nonce, TRUE, FALSE))
        /\ Len(chain_file') <= MaxChain + 1

SubmitBad ==
    \/ \E m \in Callers, b \in BadShares :
           Install(submit_share(Cur, m, b[1], b[2], TRUE, FALSE))
    \/ Install(submit_share(Cur, None, TipHash, 1, TRUE, FALSE))

MyBalance == \E m \in Callers \cup {None} : Install(my_balance(Cur, m))

Send ==
    \E m \in Callers, r \in Receivers, a \in Amounts :
        /\ Install(send(Cur, m, r, a))
        /\ Len(mempool') <= MaxPool

SendBad ==
    \/ \E m \in Callers, b \in BadSends : Install(send(Cur, m, b[1], b[2]))
    \/ Install(send(Cur, None, "bob", 16))

GetChain == Install(get_chain(Cur))

Next ==
    \/ Register
    \/ Login
    \/ GetJob
    \/ SubmitShare
    \/ SubmitBad
    \/ MyBalance
    \/ Send
    \/ SendBad
    \/ GetChain

Spec == Init /\ [][Next]_vars

\* The same server when save_chain can raise (disk full, permissions): the
\* handler dies with the exception, having or not having truncated the file.
SaveFails ==
    \E m \in Callers, nonce \in Nonces, torn \in BOOLEAN :
        /\ chain_file # Corrupt
        /\ submit_share(Cur, m, TipHash, nonce, FALSE, torn).resp.op = "error"
        /\ Install(submit_share(Cur, m, TipHash, nonce, FALSE, torn))

NextFail == Next \/ SaveFails

SpecFail == Init /\ [][NextFail]_vars

\* Concurrent requests: Flask serves each request on its own thread, and
\* submit_share takes chain_lock before it loads the chain (line 557).  A
\* thread is idle, waiting for the lock with a validated request, or locked
\* (holding the lock and the chain it loaded).
Threads == 1 .. NThreads

\* (variant) the ledger section is entered without waiting for the lock
LockFree_Always(l) == TRUE

\* line 557: chain_lock can be taken
LockFree(l) == l = 0

\* lines 541-555: the request passed authentication and validation
T_Begin(t) ==
    \E m \in Callers, seed \in {<<>>, TipHash}, nonce \in {1, 3} :
        /\ thr[t].pc = "idle"
        /\ Len(served) + Cardinality({u \in Threads : thr[u].pc # "idle"})
               < MaxServed
        /\ thr' = [thr EXCEPT ![t] = [pc |-> "waiting",
                                      req |-> ShareReq(m, seed, nonce),
                                      began |-> Len(served)]]
        /\ UNCHANGED <<chain_file, users, sessions, miner_difficulty,
                       last_share_time, mempool, clock, resp, lock, served>>

\* lines 557-558: take the lock and load the chain
T_Acquire(t) ==
    /\ thr[t].pc = "waiting"
    /\ LockFree(lock)
    /\ lock' = t
    /\ chain_file' = load_chain(chain_file)
    /\ thr' = [thr EXCEPT ![t] = [pc |-> "locked", req |-> thr[t].req,
                                  began |-> thr[t].began,
                                  chain |-> load_chain(chain_file)]]
    /\ UNCHANGED <<users, sessions, miner_difficulty, last_share_time,
                   mempool, clock, resp, served>>

\* lines 559-632: the rest of the ledger section, then the lock is released
T_Finish(t) ==
    /\ thr[t].pc = "locked"
    /\ LET r == thr[t].req
           o == submit_locked(Cur, thr[t].chain, r.miner, r.seed, r.nonce,
                              TRUE, FALSE)
       IN  /\ chain_file' = o.st.chain_file
           /\ mempool' = o.st.mempool
           /\ miner_difficulty' = o.st.miner_difficulty
           /\ last_share_time' = o.st.last_share_time
           /\ served' = Append(served, [began |-> thr[t].began,
                                        resp |-> o.resp])
    /\ Len(chain_file') <= MaxChain + 1
    /\ lock' = 0
    /\ thr' = [thr EXCEPT ![t] = [pc |-> "idle"]]
    /\ UNCHANGED <<users, sessions, clock, resp>>

\* two miners have registered and logged in (lines 448-509)
InitConc ==
    /\ chain_file = Fresh.chain_file
    /\ mempool = Fresh.mempool
    /\ miner_difficulty = Fresh.miner_difficulty
    /\ last_share_time = Fresh.last_share_time
    /\ clock = Fresh.clock
    /\ users = {"alice", "network"}
    /\ sessions = {"alice", "network"}
    /\ resp = [op |-> "none"]
    /\ lock = 0
    /\ thr = [t \in Threads |-> [pc |-> "idle"]]
    /\ served = <<>>

NextConc ==
    \/ \E t \in Threads : T_Begin(t)
    \/ \E t \in Threads : T_Acquire(t)
    \/ \E t \in Threads : T_Finish(t)

SpecConc == InitConc /\ [][NextConc]_vars

\* Difficulty retargeting over long runs of accepted shares.  The clamps at
\* MIN_DIFFICULTY and MAX_DIFFICULTY engage after more than twenty accepted
\* shares of one miner, so this specification starts from the states the
\* server is in after a run of k accepted shares of one miner, each dt
\* seconds after the one before, computed with submit_share itself.
Miners == {"alice", "network"}

\* one accepted share of miner m for the current job, dt seconds later
ShareAfter(st, m, dt) ==
    LET s1 == [st EXCEPT !.clock = @ + dt]
        c  == load_chain(s1.chain_file)
    IN  submit_share(s1, m, c[Len(c)].hash, EasyNonce, TRUE, FALSE).st

\* a run of k shares: its first half, then the rest (a first half that
\* left the state as it was had no share accepted, and the rest has none)
RECURSIVE Shares(_, _, _, _)
Shares(st, m, k, dt) ==
    IF k = 0 THEN st
    ELSE IF k = 1 THEN ShareAfter(st, m, dt)
    ELSE LET half == Shares(st, m, k \div 2, dt)
         IN  IF half = st THEN st
             ELSE Shares(half, m, k - (k \div 2), dt)

\* lengths of the runs the difficulty specification starts from
RunStarts == (MaxRun - 2) .. (MaxRun - 1)

InitDiff ==
    /\ \E m \in Miners, k \in RunStarts, dt \in {0, 1} :
           LET st == Shares(Fresh, m, k, dt)
           IN  /\ chain_file = st.chain_file
               /\ mempool = st.mempool
               /\ miner_difficulty = st.miner_difficulty
               /\ last_share_time = st.last_share_time
               /\ clock = st.clock
    /\ users = Miners
    /\ sessions = Miners
    /\ resp = [op |-> "none"]
    /\ lock = 0
    /\ thr = [t \in Threads |-> [pc |-> "idle"]]
    /\ served = <<>>

\* line 614: time passes between requests
Tick ==
    \E d \in {1, TARGET_SHARE_TIME} :
        /\ clock + d <= load_chain(chain_file)[Len(
                            load_chain(chain_file))].timestamp + MaxLag
        /\ clock' = clock + d
        /\ UNCHANGED <<chain_file, users, sessions, miner_difficulty,
                       last_share_time, mempool, resp, thread_vars>>

\* a miner submits a share for the current job
MineShare ==
    \E m \in Callers, nonce \in {EasyNonce, 1} :
        /\ Install(submit_share(Cur, m, TipHash, nonce, TRUE, FALSE))
        /\ Len(chain_file') <= MaxRun + 1

NextDiff == Tick \/ MineShare

SpecDiff == InitDiff /\ [][NextDiff]_vars

\* The pure functions get_block_reward and difficulty_to_threshold, applied
\* to heights on both sides of every halving probed (and of the halving at
\* which line 121 overflows) and to difficulties inside and outside the
\* range; resp holds the arguments and the results.
HalvingProbes == (0 .. MaxHalvings) \cup {FloatMaxExp - 1, FloatMaxExp}

Heights ==
    {k * HALVING_INTERVAL + j :
        k \in HalvingProbes, j \in {0, HALVING_INTERVAL - 1}}

Diffs == (MIN_DIFFICULTY - MaxOut) .. (MAX_DIFFICULTY + MaxOut)

InitFun == Init

RewardOf ==
    \E h1 \in Heights, h2 \in Heights :
        /\ h1 <= h2
        /\ resp' = [op |-> "get_block_reward",
                    h1 |-> h1, r1 |-> get_block_reward(h1),
                    h2 |-> h2, r2 |-> get_block_reward(h2)]
        /\ UNCHANGED <<chain_file, users, sessions, miner_difficulty,
                       last_share_time, mempool, clock, thread_vars>>

ThresholdOf ==
    \E d1 \in Diffs, d2 \in Diffs :
        /\ d1 < d2
        /\ resp' = [op |-> "difficulty_to_threshold",
                    d1 |-> d1, t1 |-> difficulty_to_threshold(d1),
                    d2 |-> d2, t2 |-> difficulty_to_threshold(d2)]
        /\ UNCHANGED <<chain_file, users, sessions, miner_difficulty,
                       last_share_time, mempool, clock, thread_vars>>

NextFun == RewardOf \/ ThresholdOf

SpecFun == InitFun /\ [][NextFun]_vars

\* ------------------------------------------------- the pool specification
\* alice and "network" are logged in and have mined one block each, so that
\* both can pay; from there transfers are enqueued and blocks are mined
InitPool ==
    /\ LET st == ShareAfter(ShareAfter(Fresh, "alice", 1), "network", 1)
       IN  /\ chain_file = st.chain_file
           /\ mempool = st.mempool
           /\ miner_difficulty = st.miner_difficulty
           /\ last_share_time = st.last_share_time
           /\ clock = st.clock
    /\ users = Miners
    /\ sessions = Miners
    /\ resp = [op |-> "none"]
    /\ lock = 0
    /\ thr = [t \in Threads |-> [pc |-> "idle"]]
    /\ served = <<>>

PoolMine ==
    \E m \in Callers, nonce \in {EasyNonce, 1} :
        /\ Install(submit_share(Cur, m, TipHash, nonce, TRUE, FALSE))
        /\ Len(chain_file') <= MaxChain + 2

NextPool == Send \/ PoolMine

SpecPool == InitPool /\ [][NextPool]_vars

\* -------------------------------------------------- the job specification
\* alice and "network" are logged in; jobs are issued and recorded in served,
\* shares are submitted for the tip or for the seed of any issued job,
\* and transfers are enqueued
InitJob == InitConc

JobIssue ==
    \E m \in Callers :
        LET o == get_job(Cur, m)
        IN  /\ o.resp.op = "get_job"
            /\ Len(served) < MaxServed - 1
            /\ chain_file' = o.st.chain_file
            /\ served' = Append(served, [began |-> Len(served),
                                         resp |-> o.resp])
            /\ UNCHANGED <<users, sessions, miner_difficulty,
                           last_share_time, mempool, clock, resp, lock, thr>>

JobSeeds == {TipHash} \cup {served[j].resp.seed : j \in 1 .. Len(served)}

JobMine ==
    \E m \in Callers, seed \in JobSeeds, nonce \in {1} :
        /\ Install(submit_share(Cur, m, seed, nonce, TRUE, FALSE))
        /\ Len(chain_file') <= MaxChain + 1

JobSend ==
    \E m \in Callers, r \in Receivers :
        /\ Install(send(Cur, m, r, INITIAL_REWARD))
        /\ Len(mempool') <= MaxPool - 1

NextJob == JobIssue \/ JobMine \/ JobSend

SpecJob == InitJob /\ [][NextJob]_vars

\* ------------------------------------------------------------------ claims
\* what the claims call "the chain": the chain a handler would load
Chain == load_chain(chain_file)
IsPrefix(s, t) == Len(s) <= Len(t) /\ SubSeq(t, 1, Len(s)) = s
\* the ledger state a handler left is the one it found
SameLedger(o) ==
    /\ load_chain(o.st.chain_file) = Chain
    /\ o.st.mempool = mempool
    /\ o.st.miner_difficulty = miner_difficulty
    /\ o.st.last_share_time = last_share_time
\* every nonce of the model
AllNonces == Nonces \cup {EasyNonce}
Threshold(m) == difficulty_to_threshold(Difficulty(Cur, m))

\* C1: a submission whose seed is not the hash of the chain tip is rejected
\* with "Stale job", whatever its proof of work, and leaves the chain, the
\* pool and the miner's difficulty and last_share_time as they were.
C1_StaleRejected ==
    \A m \in sessions, seed \in SeedChoices, nonce \in AllNonces :
        seed # TipHash =>
            LET o == submit_share(Cur, m, seed, nonce, TRUE, FALSE)
            IN  /\ o.resp.op = "submit_share"
                /\ o.resp.accepted = FALSE
                /\ o.resp.error = "Stale job"
                /\ SameLedger(o)

\* a block has been mined on genesis, and a share on the genesis hash whose
\* hash meets the miner's threshold is answered "Stale job"
C1_Witness ==
    \E m \in sessions, nonce \in AllNonces :
        /\ Len(Chain) >= 2
        /\ <<>> # TipHash
        /\ hash_val(sha1_hex(<<>>, nonce)) < Threshold(m)
        /\ submit_share(Cur, m, <<>>, nonce, TRUE, FALSE).resp.error
               = "Stale job"

\* C2: a non-stale submission is accepted exactly when the value of the
\* inspected hash prefix is strictly below the threshold of the miner's
\* difficulty; otherwise it is rejected with "Invalid share" and the chain,
\* the pool and the difficulty state stay as they were.
C2_PowDecides ==
    \A m \in sessions, nonce \in AllNonces :
        LET o == submit_share(Cur, m, TipHash, nonce, TRUE, FALSE)
            v == hash_val(sha1_hex(TipHash, nonce))
        IN  /\ o.resp.op = "submit_share"
            /\ o.resp.accepted <=> (v < Threshold(m))
            /\ v >= Threshold(m) =>
                   o.resp.error = "Invalid share" /\ SameLedger(o)

\* a miner whose share was accepted before now holds a nonce whose hash
\* value equals its threshold, and that share is answered "Invalid share"
C2_Witness ==
    \E m \in sessions, nonce \in AllNonces :
        /\ resp.op = "submit_share"
        /\ resp.accepted
        /\ hash_val(sha1_hex(TipHash, nonce)) = Threshold(m)
        /\ submit_share(Cur, m, TipHash, nonce, TRUE, FALSE).resp.error
               = "Invalid share"

RECURSIVE SumOver(_, _)
SumOver(f, S) ==
    IF S = {} THEN 0
    ELSE LET x == CHOOSE y \in S : TRUE IN f[x] + SumOver(f, S \ {x})

\* the coinbase amounts of a chain: reward(index) of every mined block
CoinbaseTotal(chain) ==
    SumOver([i \in 2 .. Len(chain) |-> get_block_reward(chain[i].index)],
            2 .. Len(chain))

\* C3: the derived balances of the chain add up to the coinbase amounts, the
\* sum of reward(index) over the mined blocks.
C3_Conservation ==
    SumOver(compute_balances(Chain), Accounts) = CoinbaseTotal(Chain)

\* C4: the chain starts with the genesis block, and every later block has
\* its position as index, the hash of its predecessor as prev_hash, and the
\* digest of prev_hash followed by its nonce as hash.
C4_ChainLinked ==
    /\ Chain[1].index = 0
    /\ Chain[1].prev_hash = <<>>
    /\ Chain[1].hash = <<>>
    /\ Chain[1].transactions = <<>>
    /\ \A i \in 2 .. Len(Chain) :
           /\ Chain[i].index = i - 1
           /\ Chain[i].prev_hash = Chain[i - 1].hash
           /\ Chain[i].hash = sha1_hex(Chain[i].prev_hash, Chain[i].nonce)

\* two blocks have been mined on top of genesis
C4_Witness == chain_file # NoFile /\ Len(chain_file) = 3

\* C5: every step leaves the previous chain as a prefix of the next one,
\* adds at most one block, and adds one only by accepting a share.
C5_AppendOnly ==
    [][LET c1 == load_chain(chain_file)
           c2 == load_chain(chain_file')
       IN  /\ IsPrefix(c1, c2)
           /\ Len(c2) <= Len(c1) + 1
           /\ c2 # c1 => resp'.op = "submit_share" /\ resp'.accepted]_vars

\* a transfer was enqueued on a chain that already has a mined block
C5_Witness ==
    /\ Len(Chain) >= 2
    /\ resp.op = "send"
    /\ resp.success

\* the running balances of submit_share's mempool loop after it has looked
\* at the first i pool entries, starting from the balances of the chain
RECURSIVE RunningBalance(_, _, _)
RunningBalance(chain, pool, i) ==
    IF i = 0 THEN compute_balances(chain)
    ELSE LET b == RunningBalance(chain, pool, i - 1)
             tx == pool[i]
         IN  IF FGe(b[tx.from], tx.amount)
             THEN [a \in Accounts |->
                      b[a] - (IF a = tx.from THEN tx.amount ELSE 0)
                           + (IF a = tx.to THEN tx.amount ELSE 0)]
             ELSE b

\* the pool entries at the positions of S, in pool order
RECURSIVE PickInOrder(_, _, _)
PickInOrder(pool, S, i) ==
    IF i > Len(pool) THEN <<>>
    ELSE (IF i \in S THEN <<pool[i]>> ELSE <<>>) \o PickInOrder(pool, S, i + 1)

\* the positions whose sender cannot pay at its turn
Unaffordable(chain, pool) ==
    {i \in 1 .. Len(pool) :
        ~FGe(RunningBalance(chain, pool, i - 1)[pool[i].from], pool[i].amount)}

\* C8: when a block is assembled, the pending transactions whose sender
\* lacks the running balance at their turn stay in the pool as they are and
\* in the order they had.
C8_RetainedInOrder ==
    \A m \in sessions, nonce \in AllNonces :
        LET o == submit_share(Cur, m, TipHash, nonce, TRUE, FALSE)
        IN  o.resp.op = "submit_share" /\ o.resp.accepted =>
                o.st.mempool =
                    PickInOrder(mempool, Unaffordable(Chain, mempool), 1)

\* a block has just been assembled and left two different transactions, in
\* the pool before it, behind
C8_Witness ==
    /\ resp.op = "submit_share"
    /\ resp.accepted
    /\ Len(mempool) = 2
    /\ mempool[1] # mempool[2]

\* C9: a transfer is enqueued exactly when its amount is positive and the
\* sender's balance on the confirmed chain covers it; then one entry is
\* appended to the pool, otherwise the pool is unchanged; the chain and the
\* balances are unchanged either way.
C9_SendValidated ==
    \A m \in sessions, r \in Receivers, a \in Amounts :
        LET o == send(Cur, m, r, a)
            ok == FGt(a, 0) /\ FGe(compute_balances(Chain)[m], a)
        IN  /\ o.resp.op = "send"
            /\ o.resp.success <=> ok
            /\ o.st.mempool =
                   IF ok THEN Append(mempool, [from |-> m, to |-> r,
                                               amount |-> a])
                   ELSE mempool
            /\ load_chain(o.st.chain_file) = Chain
            /\ o.st.miner_difficulty = miner_difficulty
            /\ o.st.last_share_time = last_share_time

\* the same for the amounts that are numbers
C9_SendValidatedFinite ==
    \A m \in sessions, r \in Receivers, a \in Amounts \ {NaN} :
        LET o == send(Cur, m, r, a)
            ok == a > 0 /\ compute_balances(Chain)[m] >= a
        IN  /\ o.resp.success <=> ok
            /\ o.st.mempool =
                   IF ok THEN Append(mempool, [from |-> m, to |-> r,
                                               amount |-> a])
                   ELSE mempool
            /\ load_chain(o.st.chain_file) = Chain

\* C10: when save_chain fails during Append the submission is not reported
\* as accepted and nothing of it remains: the durable chain, the pool and the
\* miner's difficulty and last_share_time are what they were before.
C10_FailedSaveLeavesNothing ==
    [][(chain_file # Corrupt /\ resp'.op = "error") =>
          /\ load_chain(chain_file') = load_chain(chain_file)
          /\ mempool' = mempool
          /\ miner_difficulty' = miner_difficulty
          /\ last_share_time' = last_share_time]_vars

\* the shares answered accepted, as positions of served
AcceptedAt == {i \in 1 .. Len(served) : served[i].resp.accepted}

\* C6: concurrent submissions are atomic with respect to each other: of the
\* submissions carrying one seed at most one is accepted, and each one
\* answered after it is rejected as stale; no chain holds two blocks with the
\* same prev_hash, and every accepted block stays in the chain.
C6_SubmissionsAtomic ==
    /\ \A i, j \in 1 .. Len(served) :
           (i < j /\ i \in AcceptedAt
                  /\ served[j].resp.req.seed = served[i].resp.req.seed) =>
               /\ ~served[j].resp.accepted
               /\ served[j].resp.error = "Stale job"
    /\ \A i, j \in 2 .. Len(Chain) :
           i # j => Chain[i].prev_hash # Chain[j].prev_hash
    /\ \A i \in AcceptedAt :
           \E k \in 2 .. Len(Chain) :
               /\ Chain[k].hash = served[i].resp.hash
               /\ Chain[k].prev_hash = served[i].resp.req.seed
               /\ Chain[k].nonce = served[i].resp.req.nonce
               /\ Chain[k].miner = served[i].resp.req.miner
               /\ k = served[i].resp.height + 1

\* two submissions with the same seed and a hash that meets the threshold of
\* the default difficulty were in flight together; the first answered was
\* accepted and the second rejected as stale
C6_Witness ==
    \E i, j \in 1 .. Len(served) :
        /\ i < j
        /\ served[i].resp.accepted
        /\ served[j].began < i
        /\ served[j].resp.req.seed = served[i].resp.req.seed
        /\ served[j].resp.error = "Stale job"
        /\ hash_val(sha1_hex(served[j].resp.req.seed,
                             served[j].resp.req.nonce))
               < difficulty_to_threshold(DEFAULT_DIFFICULTY)

\* C7: for every account the difficulty in effect (DEFAULT_DIFFICULTY when
\* the account has no entry yet) lies in MIN_DIFFICULTY .. MAX_DIFFICULTY in
\* every reachable state, whatever the number and timing of accepted shares.
C7_DifficultyBounded ==
    \A a \in Accounts :
        /\ Difficulty(Cur, a) >= MIN_DIFFICULTY
        /\ Difficulty(Cur, a) <= MAX_DIFFICULTY

\* one miner mined every block and each of its shares lowered the difficulty
\* (the clock never moved, so each measured interval was TARGET_SHARE_TIME);
\* there are more shares than steps from the default to the floor, and the
\* last accepted share left the difficulty at the floor
C7_Witness ==
    /\ resp.op = "submit_share"
    /\ resp.accepted
    /\ clock = Fresh.clock
    /\ Len(chain_file) - 1 > DEFAULT_DIFFICULTY - MIN_DIFFICULTY
    /\ \A i \in 2 .. Len(chain_file) : chain_file[i].miner = resp.req.miner
    /\ resp.difficulty = MIN_DIFFICULTY
    /\ miner_difficulty[resp.req.miner] = MIN_DIFFICULTY

\* a run of shares each one second after the one before raised the difficulty
\* to the ceiling and the next such share left it there
C7_WitnessCeiling ==
    /\ resp.op = "submit_share"
    /\ resp.accepted
    /\ resp.share_time < TARGET_SHARE_TIME
    /\ resp.difficulty = MAX_DIFFICULTY
    /\ Len(chain_file) - 1 > (MAX_DIFFICULTY - DEFAULT_DIFFICULTY) + 2
    /\ \A i \in 2 .. Len(chain_file) :
           /\ chain_file[i].miner = resp.req.miner
           /\ chain_file[i].timestamp = chain_file[i - 1].timestamp + 1

\* C11: an accepted submission reports the hash of the new tip, the index of
\* the appended block (one more than the height of the old tip), the reward
\* of that height and the miner's balance on the chain that includes the new
\* block; the first accepted share on the genesis chain reports height 1 and
\* balance INITIAL_REWARD.
C11_AcceptedReply ==
    \A m \in sessions, nonce \in AllNonces :
        LET o == submit_share(Cur, m, TipHash, nonce, TRUE, FALSE)
            c == load_chain(o.st.chain_file)
            tip == c[Len(c)]
        IN  (o.resp.op = "submit_share" /\ o.resp.accepted) =>
                /\ Len(c) = Len(Chain) + 1
                /\ o.resp.hash = tip.hash
                /\ o.resp.height = tip.index
                /\ o.resp.height = get_height(Chain) + 1
                /\ o.resp.reward = get_block_reward(o.resp.height)
                /\ o.resp.balance
                       = SumOver([i \in 1 .. Len(c) |->
                                     TxsNet(c[i].transactions, m)],
                                 1 .. Len(c))
                /\ Len(Chain) = 1 =>
                       /\ o.resp.height = 1
                       /\ o.resp.balance = INITIAL_REWARD

\* the first block was just mined on the genesis chain and the reply carried
\* height 1 and the initial reward as balance
C11_Witness ==
    /\ resp.op = "submit_share"
    /\ resp.accepted
    /\ Len(Chain) = 2
    /\ resp.height = 1
    /\ resp.hash = TipHash
    /\ resp.balance = INITIAL_REWARD

\* the difficulty a further accepted share of m leaves, against the time that
\* really passed since m's previous accepted share: raised by one step (or
\* kept at MAX_DIFFICULTY) for every interval in Low .. TARGET_SHARE_TIME - 1,
\* lowered by one step (not below MIN_DIFFICULTY) from TARGET_SHARE_TIME on
RetargetsByElapsed(Low) ==
    \A m \in sessions, nonce \in AllNonces :
        LET o == submit_share(Cur, m, TipHash, nonce, TRUE, FALSE)
            e == clock - last_share_time[m]
            d == Difficulty(Cur, m)
            d2 == o.st.miner_difficulty[m]
        IN  (/\ last_share_time[m] # Absent
             /\ o.resp.op = "submit_share"
             /\ o.resp.accepted) =>
                /\ (e >= Low /\ e < TARGET_SHARE_TIME) =>
                       \/ d2 > d
                       \/ d = MAX_DIFFICULTY /\ d2 = MAX_DIFFICULTY
                /\ e >= TARGET_SHARE_TIME =>
                       d2 = Max(d - 1, MIN_DIFFICULTY)

\* C12: of two consecutive accepted shares of one miner, the second raises
\* the difficulty (or keeps it at MAX_DIFFICULTY) when the time between them
\* is anywhere in [0, TARGET_SHARE_TIME), and lowers it by one step, floored
\* at MIN_DIFFICULTY, when it is TARGET_SHARE_TIME or more.
C12_RetargetByElapsed == RetargetsByElapsed(0)

\* the same for the intervals in (0, TARGET_SHARE_TIME): the code agrees with
\* the claim everywhere but at an interval of exactly zero
C12_RetargetByPositiveElapsed == RetargetsByElapsed(1)

\* the reward schedule on the heights below Limit: the reward is
\* INITIAL_REWARD / 2^(height div HALVING_INTERVAL) floored at MIN_REWARD
\* (the quotient is below MIN_REWARD from the 31st halving on at the latest),
\* it is INITIAL_REWARD at height 0 and half of it at HALVING_INTERVAL, it
\* never grows with the height and never drops below MIN_REWARD
RewardSchedule(Limit) ==
    resp.op = "get_block_reward" =>
        /\ \A x \in {<<resp.h1, resp.r1>>, <<resp.h2, resp.r2>>} :
               LET h == x[1]
                   r == x[2]
                   halvings == h \div HALVING_INTERVAL
               IN  h < Limit =>
                       /\ r # RewardOverflow
                       /\ r >= MIN_REWARD
                       /\ halvings < 31 =>
                              r = Max(INITIAL_REWARD \div Pow2(halvings),
                                      MIN_REWARD)
                       /\ halvings >= 31 => r = MIN_REWARD
                       /\ h = 0 => r = INITIAL_REWARD
                       /\ h = HALVING_INTERVAL => 2 * r = INITIAL_REWARD
        /\ (resp.h2 < Limit /\ resp.h1 <= resp.h2) => resp.r1 >= resp.r2

\* C13: reward(height) is INITIAL_REWARD / 2^(height div HALVING_INTERVAL)
\* floored at MIN_REWARD for every height >= 0: INITIAL_REWARD at height 0,
\* half of it at HALVING_INTERVAL, non-increasing, never below MIN_REWARD.
C13_RewardSchedule ==
    RewardSchedule((FloatMaxExp + 1) * HALVING_INTERVAL)

\* the same for the heights below FloatMaxExp * HALVING_INTERVAL, where
\* line 121 does not overflow
C13_RewardScheduleBelowOverflow ==
    RewardSchedule(FloatMaxExp * HALVING_INTERVAL)

\* C14: the threshold never grows with the difficulty and strictly shrinks
\* between two difficulties of MIN_DIFFICULTY .. MAX_DIFFICULTY; a difficulty
\* below the range has the threshold of MIN_DIFFICULTY, which is 90% of the
\* largest six-digit hex value (truncated to an integer), and one above the
\* range that of MAX_DIFFICULTY, which is 20% of it.
C14_ThresholdMonotone ==
    resp.op = "difficulty_to_threshold" =>
        LET max_raw == 16^6 - 1
            InRange(d) == d >= MIN_DIFFICULTY /\ d <= MAX_DIFFICULTY
        IN  /\ resp.d1 < resp.d2 => resp.t1 >= resp.t2
            /\ (resp.d1 < resp.d2 /\ InRange(resp.d1) /\ InRange(resp.d2)) =>
                   resp.t1 > resp.t2
            /\ \A x \in {<<resp.d1, resp.t1>>, <<resp.d2, resp.t2>>} :
                   /\ x[1] <= MIN_DIFFICULTY =>
                          /\ 10 * x[2] <= 9 * max_raw
                          /\ 10 * (x[2] + 1) > 9 * max_raw
                   /\ x[1] >= MAX_DIFFICULTY =>
                          /\ 10 * x[2] <= 2 * max_raw
                          /\ 10 * (x[2] + 1) > 2 * max_raw

\* the function was applied to a difficulty below the range and to one above
\* it, and to two neighbouring difficulties inside it
C14_Witness ==
    /\ resp.op = "difficulty_to_threshold"
    /\ resp.d1 < MIN_DIFFICULTY
    /\ resp.d2 > MAX_DIFFICULTY
    /\ resp.t1 > resp.t2

C14_WitnessInside ==
    /\ resp.op = "difficulty_to_threshold"
    /\ resp.d1 = DEFAULT_DIFFICULTY
    /\ resp.d2 = DEFAULT_DIFFICULTY + 1
    /\ resp.t1 > resp.t2

\* C15: a job issued to an account carries the hash of the current tip as
\* seed, the height after the tip, the reward of that height, the account's
\* difficulty (DEFAULT_DIFFICULTY when it has none yet) and the threshold of
\* that difficulty; issuing it changes neither the chain, the pool nor any
\* difficulty or last_share_time.
C15_JobMatchesTip ==
    \A m \in sessions :
        LET o == get_job(Cur, m)
            tip == Chain[Len(Chain)]
            d == IF miner_difficulty[m] = Absent THEN DEFAULT_DIFFICULTY
                 ELSE miner_difficulty[m]
        IN  /\ o.resp.op = "get_job" =>
                   /\ o.resp.seed = tip.hash
                   /\ o.resp.height = tip.index + 1
                   /\ o.resp.height = Len(Chain)
                   /\ o.resp.reward = get_block_reward(tip.index + 1)
                   /\ o.resp.difficulty = d
                   /\ o.resp.threshold = difficulty_to_threshold(d)
            /\ SameLedger(o)

\* a job is issued, on a chain with two mined blocks and a pending transfer,
\* to a miner whose difficulty has moved away from the default
C15_Witness ==
    \E m \in sessions :
        /\ Len(Chain) = 3
        /\ mempool # <<>>
        /\ miner_difficulty[m] # Absent
        /\ get_job(Cur, m).resp.op = "get_job"
        /\ get_job(Cur, m).resp.height = 3
        /\ get_job(Cur, m).resp.difficulty # DEFAULT_DIFFICULTY
        /\ get_job(Cur, m).resp.seed = TipHash

\* C16: the sender "network" is reserved for the coinbase: in every chain
\* the transactions sent by "network" are exactly the transactions at the
\* head of the mined blocks' lists, one per block, so no transfer a user
\* asked for is in the chain with a sender that is never debited.
C16_NetworkReserved ==
    \A i \in 2 .. Len(Chain) :
        LET txs == Chain[i].transactions
        IN  /\ Len(txs) >= 1
            /\ \A j \in 1 .. Len(txs) : (txs[j].from = "network") <=> (j = 1)

\* the running balances after the first i pool entries were looked at in
\* order, each included when its sender's running balance covers its amount
\* and then debited from the sender and credited to the receiver in full
RECURSIVE RunningFrom(_, _, _)
RunningFrom(start, pool, i) ==
    IF i = 0 THEN start
    ELSE LET b == RunningFrom(start, pool, i - 1)
             tx == pool[i]
         IN  IF FGe(b[tx.from], tx.amount)
             THEN [a \in Accounts |->
                      b[a] - (IF a = tx.from THEN tx.amount ELSE 0)
                           + (IF a = tx.to THEN tx.amount ELSE 0)]
             ELSE b

\* the positions whose sender can pay at its turn
Affordable(start, pool) ==
    {i \in 1 .. Len(pool) :
        FGe(RunningFrom(start, pool, i - 1)[pool[i].from], pool[i].amount)}

\* the block an accepted share of m assembles holds, after its coinbase,
\* exactly the pool entries affordable from StartOf(m), in pool order
AssemblesFrom(StartOf(_)) ==
    \A m \in sessions, nonce \in AllNonces :
        LET o == submit_share(Cur, m, TipHash, nonce, TRUE, FALSE)
            c == load_chain(o.st.chain_file)
        IN  (o.resp.op = "submit_share" /\ o.resp.accepted) =>
                Tail(c[Len(c)].transactions)
                    = PickInOrder(mempool, Affordable(StartOf(m), mempool), 1)

\* the balances of the chain with the coinbase of the next block credited
WithCoinbase(m) ==
    [a \in Accounts |->
        compute_balances(Chain)[a]
            + (IF a = m THEN get_block_reward(Len(Chain)) ELSE 0)]

WithoutCoinbase(m) == compute_balances(Chain)

\* C17: block assembly includes a pool transaction, taken in FIFO order,
\* exactly when its sender's running balance covers its amount, the running
\* balance starting from the balances of the chain before the block and being
\* changed by every transaction already selected, the coinbase first.
C17_AssemblyWithCoinbase == AssemblesFrom(WithCoinbase)

\* C17 as amended: the same, the running balance being changed by the pool
\* transactions already selected only; the coinbase is not credited to it.
C17_Assembly == AssemblesFrom(WithoutCoinbase)

\* a block was assembled from a pool of two transfers of one sender: the
\* first was included and used up the balance, the second stayed behind
C17_Witness ==
    /\ resp.op = "submit_share"
    /\ resp.accepted
    /\ Len(Chain[Len(Chain)].transactions) = 2
    /\ Len(mempool) = 1
    /\ mempool[1].amount # NaN
    /\ mempool[1].from = Chain[Len(Chain)].transactions[2].from

\* the positions 1 .. n that are not in S
Others(n, S) == (1 .. n) \ S

\* C18: the transaction list of every mined block starts with the coinbase
\* (from "network", to the block's miner, the reward of the block's index);
\* after it come the included pool transactions in the order in which they
\* were enqueued, the rest of the pool keeping its order too.
C18_CoinbaseThenFifo ==
    \A m \in sessions, nonce \in AllNonces :
        LET o == submit_share(Cur, m, TipHash, nonce, TRUE, FALSE)
            c == load_chain(o.st.chain_file)
            b == c[Len(c)]
        IN  (o.resp.op = "submit_share" /\ o.resp.accepted) =>
                /\ Len(c) = Len(Chain) + 1
                /\ b.miner = m
                /\ Head(b.transactions)
                       = [from |-> "network", to |-> b.miner,
                          amount |-> get_block_reward(b.index)]
                /\ \E S \in SUBSET (1 .. Len(mempool)) :
                       /\ Tail(b.transactions) = PickInOrder(mempool, S, 1)
                       /\ o.st.mempool
                              = PickInOrder(mempool,
                                            Others(Len(mempool), S), 1)

\* a block was just mined that took two different transfers out of the pool
C18_Witness ==
    /\ resp.op = "submit_share"
    /\ resp.accepted
    /\ Len(Chain[Len(Chain)].transactions) = 3
    /\ Chain[Len(Chain)].transactions[2] # Chain[Len(Chain)].transactions[3]
    /\ Chain[Len(Chain)].transactions[1].to = Chain[Len(Chain)].miner

\* how often tx occurs in a sequence of transactions
RECURSIVE Count(_, _)
Count(tx, txs) ==
    IF txs = <<>> THEN 0
    ELSE (IF Head(txs) = tx THEN 1 ELSE 0) + Count(tx, Tail(txs))

\* how often tx occurs among the transfers of the blocks i .. of a chain, the
\* coinbase of each block left out
RECURSIVE CountInBlocks(_, _, _)
CountInBlocks(tx, chain, i) ==
    IF i > Len(chain) THEN 0
    ELSE (IF chain[i].transactions = <<>> THEN 0
          ELSE Count(tx, Tail(chain[i].transactions)))
         + CountInBlocks(tx, chain, i + 1)

\* how often tx is held by the given pool and persisted chain file together
Held(tx, file, pool) ==
    Count(tx, pool)
        + (IF file = Corrupt THEN 0 ELSE CountInBlocks(tx, load_chain(file), 1))

\* every transfer a client can have enqueued
Transfers == [from : Accounts, to : Accounts, amount : Amounts]

Enqueued(tx) ==
    /\ resp'.op = "send"
    /\ resp'.success
    /\ resp'.req = tx

\* C19: a pool entry leaves the pool only by being included in a block: no
\* step changes how often a transfer is held by the pool and the persisted
\* chain together, except that a successful send adds the one transfer it
\* enqueued; so each enqueued transfer is in the pool once or in one block,
\* never lost and never duplicated.
C19_PoolConserved ==
    [][\A tx \in Transfers :
          Held(tx, chain_file', mempool')
              = Held(tx, chain_file, mempool)
                    + (IF Enqueued(tx) /\ mempool' # mempool THEN 1 ELSE 0)]_vars

\* C20: the first accepted share of an account counts as having taken
\* TARGET_SHARE_TIME: it reports share_time = TARGET_SHARE_TIME, lowers the
\* difficulty one step from the default and records the acceptance time as
\* last_share_time; every later accepted share records its own acceptance
\* time as well.
C20_FirstShareNeutral ==
    \A m \in sessions, nonce \in AllNonces :
        LET o == submit_share(Cur, m, TipHash, nonce, TRUE, FALSE)
        IN  (o.resp.op = "submit_share" /\ o.resp.accepted) =>
                /\ o.st.last_share_time[m] = clock
                /\ last_share_time[m] = Absent =>
                       /\ o.resp.share_time = TARGET_SHARE_TIME
                       /\ o.resp.difficulty = DEFAULT_DIFFICULTY - 1
                       /\ o.st.miner_difficulty[m] = DEFAULT_DIFFICULTY - 1

\* a miner's first share was just accepted, some time after the server
\* started and after another miner's shares
C20_Witness ==
    /\ resp.op = "submit_share"
    /\ resp.accepted
    /\ clock > Fresh.clock
    /\ Cardinality({i \in 2 .. Len(Chain) :
                       Chain[i].miner = resp.req.miner}) = 1
    /\ Chain[Len(Chain)].miner = resp.req.miner
    /\ resp.share_time = TARGET_SHARE_TIME
    /\ resp.difficulty = DEFAULT_DIFFICULTY - 1
    /\ last_share_time[resp.req.miner] = clock

\* a miner's later share was just accepted at a later time than the miner's
\* previous one and replaced the recorded time
C20_WitnessLater ==
    /\ resp.op = "submit_share"
    /\ resp.accepted
    /\ Len(Chain) > 2
    /\ Chain[Len(Chain) - 1].miner = resp.req.miner
    /\ Chain[Len(Chain) - 1].timestamp < clock
    /\ resp.share_time = clock - Chain[Len(Chain) - 1].timestamp
    /\ last_share_time[resp.req.miner] = clock

\* the balance of account a that replaying the blocks before block i and the
\* first k transactions of block i derives
ReplayedTo(chain, i, k, a) ==
    ChainNet(SubSeq(chain, 1, i - 1), a)
        + TxsNet(SubSeq(chain[i].transactions, 1, k), a)

\* C21: no account is ever overdrawn: the balance that replaying the chain
\* derives is at least 0 for every account, and so is the balance after every
\* prefix of every block's transaction list.
C21_NoOverdraft ==
    \A a \in Accounts :
        /\ compute_balances(Chain)[a] >= 0
        /\ \A i \in 1 .. Len(Chain) :
               \A k \in 0 .. Len(Chain[i].transactions) :
                   ReplayedTo(Chain, i, k, a) >= 0

\* a block was just mined by someone else while its sender had two transfers
\* pending that its balance covered only one of: one was included and
\* emptied the account, the other is still pending
C21_Witness ==
    /\ resp.op = "submit_share"
    /\ resp.accepted
    /\ Len(Chain[Len(Chain)].transactions) = 2
    /\ Len(mempool) = 1
    /\ mempool[1].amount # NaN
    /\ mempool[1].from = Chain[Len(Chain)].transactions[2].from
    /\ mempool[1].from # Chain[Len(Chain)].miner
    /\ mempool[1].from # "network"
    /\ compute_balances(Chain)[mempool[1].from] = 0

\* the jobs issued so far
Jobs == {served[j].resp : j \in 1 .. Len(served)}

\* the reply to a share of the job's miner for the job's seed
ShareFor(job, nonce) ==
    submit_share(Cur, job.miner, job.seed, nonce, TRUE, FALSE).resp

\* the share was not turned away as stale
PassesStale(r) ==
    r.op = "submit_share" /\ (r.accepted \/ r.error # "Stale job")

\* C22: job and validation agree: whenever a share of miner m with seed s
\* passes the stale check, it is validated against the threshold that every
\* job issued to m with seed s published, m's difficulty being what it was
\* when the job was issued.
C22_JobAndValidationAgree ==
    \A job \in Jobs :
        (\E nonce \in AllNonces : PassesStale(ShareFor(job, nonce)))
            =>
            /\ Difficulty(Cur, job.miner) = job.difficulty
            /\ Threshold(job.miner) = job.threshold
            /\ \A nonce \in AllNonces :
                   LET r == ShareFor(job, nonce)
                   IN  /\ r.op = "submit_share"
                       /\ r.accepted
                              = (hash_val(sha1_hex(job.seed, nonce))
                                     < job.threshold)

\* two jobs were issued to a miner for one seed after the miner's difficulty
\* had moved off the default, a transfer was enqueued, and the miner's share
\* for that seed was then validated against the jobs' threshold and accepted
C22_Witness ==
    /\ Len(served) = 2
    /\ served[1].resp = served[2].resp
    /\ served[1].resp.difficulty = DEFAULT_DIFFICULTY - 1
    /\ served[1].resp.threshold
           = difficulty_to_threshold(DEFAULT_DIFFICULTY - 1)
    /\ resp.op = "submit_share"
    /\ resp.accepted
    /\ resp.req.miner = served[1].resp.miner
    /\ resp.req.seed = served[1].resp.seed
    /\ hash_val(resp.hash) < served[1].resp.threshold
    /\ Len(Chain[Len(Chain)].transactions) = 2

====
